---------------------------- MODULE Spec2Model ----------------------------
(***************************************************************************)
(* A model of pelilauta-crawler: the recursive site mirror of             *)
(* src/webCrawler.ts (the "simple" variant, compiled to src/webCrawler.js) *)
(* and of src/unnamed/part_000 (the "richer" variant: page ceiling,        *)
(* ignore patterns, anchor rewriting, Markdown post-processing).           *)
(*                                                                         *)
(* Strings are sequences of one-character strings, so that the regular     *)
(* expressions, String.includes, path.basename and the URL parser of the   *)
(* source are computed character by character.                             *)
(*                                                                         *)
(* One action of the model is one run-to-completion segment of the         *)
(* single-threaded JavaScript event loop: the code between two             *)
(* suspension points (await of a network or file operation, or a stream    *)
(* event).                                                                 *)
(***************************************************************************)
EXTENDS Naturals, Sequences, FiniteSets, TLC

VARIABLES
  variant,         \* "simple" (webCrawler.ts) or "richer" (part_000)
  docs,            \* the site served: URL -> document (its img srcs, its anchor hrefs)
  visitedPages,    \* const visitedPages: Set<string>
  imageDownloads,  \* const imageDownloads: Set<string>
  tasks,           \* crawl() invocations past the dedup check, in order of creation
  dls,             \* downloadImage() invocations, in order of creation
  files,           \* the destination folder results/<domain>: file name -> content
  crashed,         \* an exception reached the top of the event loop: the process died
  callLog,         \* observer: what each crawl() invocation saw and did
  requests,        \* observer: the HTTP requests started, in order
  nIn,             \* normalizer harness: the input URL
  nOut             \* normalizer harness: the name computed, or Pending

vars == <<variant, docs, visitedPages, imageDownloads, tasks, dls, files,
          crashed, callLog, requests, nIn, nOut>>

crawlVars == <<docs, visitedPages, imageDownloads, tasks, dls, files,
               crashed, callLog, requests>>

-----------------------------------------------------------------------------
(* Bounds of the model *)

\* longest path suffix fed to the normalizer harness
MaxLen == 4

\* the page ceiling of the richer variant, scaled down so that a crawl reaches it
PageCeiling == 3

-----------------------------------------------------------------------------
(* Characters and strings *)

\* printable ASCII in code-point order, starting at U+0020 (the three characters
\* a TLA+ string cannot hold plainly are named, and no string of the model uses them)
Ascii ==
  <<" ", "!", "QUOTATION MARK", "#", "$", "%", "&", "'", "(", ")", "*", "+", ",", "-", ".", "/",
    "0", "1", "2", "3", "4", "5", "6", "7", "8", "9", ":", ";", "<", "=", ">", "?",
    "@", "A", "B", "C", "D", "E", "F", "G", "H", "I", "J", "K", "L", "M", "N", "O",
    "P", "Q", "R", "S", "T", "U", "V", "W", "X", "Y", "Z", "[", "REVERSE SOLIDUS", "]", "^", "_",
    "GRAVE ACCENT", "a", "b", "c", "d", "e", "f", "g", "h", "i", "j", "k", "l", "m", "n", "o",
    "p", "q", "r", "s", "t", "u", "v", "w", "x", "y", "z", "{", "|", "}", "~">>

CodeTable == [i \in 1..Len(Ascii) |-> 31 + i]

\* the code point of a character
Code(c) == CodeTable[CHOOSE i \in 1..Len(Ascii) : Ascii[i] = c]

InRange(c, lo, hi) == Code(lo) <= Code(c) /\ Code(c) <= Code(hi)

\* an ASCII capital as its small letter, any other character as it is
ToLower(c) ==
  IF InRange(c, "A", "Z") THEN Ascii[Code(c) - Code("A") + Code("a") - 31] ELSE c

\* U+00D6 and U+00F6, the upper ends of the ranges A-O-umlaut and a-o-umlaut
CodeOUmlautUpper == 214
CodeOUmlautLower == 246

\* F(v), with v evaluated once before F is applied to it
Then(v, F(_)) == CHOOSE r \in {F(x) : x \in {v}} : TRUE

MapSeq(s, F(_)) == Then(s, LAMBDA x : [i \in 1..Len(x) |-> F(x[i])])

StartsWith(s, p) == Len(p) <= Len(s) /\ SubSeq(s, 1, Len(p)) = p

EndsWith(s, p) == Len(p) <= Len(s) /\ SubSeq(s, Len(s) - Len(p) + 1, Len(s)) = p

\* String.prototype.includes
Includes(s, p) ==
  Then(s, LAMBDA x : \E i \in 0..(Len(x) - Len(p)) : SubSeq(x, i + 1, i + Len(p)) = p)

\* s.substring(n): s without its first n characters
Substring(s, n) == SubSeq(s, n + 1, Len(s))

Dash == "-"

Min(S) == CHOOSE x \in S : \A y \in S : x <= y

Max(S) == CHOOSE x \in S : \A y \in S : y <= x

\* the characters of s at the positions in keep, in order
SelectAt(s, keep) ==
  [j \in 1..Cardinality(keep) |->
     s[CHOOSE i \in keep : Cardinality({x \in keep : x <= i}) = j]]

\* the position of the first character of s at or after i that is in set cs, or 0
FirstOf(s, cs, i) ==
  Then(s, LAMBDA x :
    Then({j \in i..Len(x) : x[j] \in cs}, LAMBDA hits :
      IF hits = {} THEN 0 ELSE Min(hits)))

\* the position where the run of dashes holding position i starts
RunStart(s, i) == Min({j \in 1..i : \A x \in j..i : s[x] = Dash})

\* s.replace(/-+/g, '-'): every run of dashes becomes one dash
CollapseDashes(s) ==
  Then(s, LAMBDA x :
    Then({i \in 1..Len(x) : x[i] # Dash \/ RunStart(x, i) = i}, LAMBDA keep :
      SelectAt(x, keep)))

\* s.replace(/(^-+|-+$)/g, ''): the leading and the trailing run of dashes removed
StripLeadingDashes(s) ==
  Then(s, LAMBDA x :
    Then({i \in 1..Len(x) : x[i] # Dash}, LAMBDA others :
      IF others = {} THEN <<>> ELSE SubSeq(x, Min(others), Len(x))))

StripTrailingDashes(s) ==
  Then(s, LAMBDA x :
    Then({i \in 1..Len(x) : x[i] # Dash}, LAMBDA others :
      IF others = {} THEN <<>> ELSE SubSeq(x, 1, Max(others))))

\* r.split('--').join('-'): one left-to-right pass over non-overlapping "--", which
\* pairs the dashes of a run from its start: the second dash of every pair goes
SplitJoinDashes(s) ==
  Then(s, LAMBDA x :
    Then({i \in 1..Len(x) : x[i] # Dash \/ (i - RunStart(x, i)) % 2 = 0}, LAMBDA keep :
      SelectAt(x, keep)))

\* while (r.includes('--')) r = r.split('--').join('-')
RECURSIVE WhileDoubleDash(_)
WhileDoubleDash(r) ==
  IF Includes(r, <<Dash, Dash>>)
  THEN Then(SplitJoinDashes(r), LAMBDA x : WhileDoubleDash(x))
  ELSE r

-----------------------------------------------------------------------------
(* The configuration *)

\* --domain: the host name given on the command line
domain == <<"a", ".", "b">>

Https == <<"h", "t", "t", "p", "s", ":", "/", "/">>
Http == <<"h", "t", "t", "p", ":", "/", "/">>
Www == <<"w", "w", "w", ".">>

\* what extractLocalPathFromUrl returns for an unparsable URL; no string equals it
null == <<"null">>

Index == <<"i", "n", "d", "e", "x">>

\* the extension crawl() appends: '.mdx' in webCrawler.ts, '.md' in part_000
PageExt(v) ==
  IF v = "simple" THEN <<".", "m", "d", "x">> ELSE <<".", "m", "d">>

\* the extension downloadAndSavePage appends to a rewritten anchor (part_000 only)
LinkExt == <<".", "m", "d">>

maxPages == PageCeiling

ignorePatterns ==
  { <<"A", "d", "m", "i", "n">>,
    <<"M", "y", "P", "a", "g", "e", "s">>,
    <<"P", "a", "s", "s", "W", "o", "r", "d">>,
    <<"M", "y", "C", "h", "a", "n", "g", "e", "s">>,
    <<"S", "a", "n", "d", "B", "o", "x">>,
    <<"S", "e", "a", "r", "c", "h">>,
    <<"-", "r", "e", "v", "i", "s", "i", "o", "n", "s">>,
    <<"-", "s", "h", "o", "w", "c", "o", "d", "e">>,
    <<"-", "r", "a", "w">>,
    <<"S", "p", "a", "m">>,
    <<"M", "y", "S", "Q", "L">>,
    <<"-", "e", "d", "i", "t">>,
    <<"-", "h", "i", "s", "t", "o", "r", "y">>,
    <<"-", "b", "a", "c", "k", "l", "i", "n", "k", "s">> }

-----------------------------------------------------------------------------
(* URL Normalizer *)

Digits == {"0", "1", "2", "3", "4", "5", "6", "7", "8", "9"}

\* new URL(url), for the http and https URLs the crawler meets: the scheme, then
\* the authority up to the first of / ? #, whose host must not be empty and whose
\* port, if any, must be digits; the pathname runs to the first of ? #, and is
\* "/" when empty. (Percent-encoding and dot-segment removal are not needed for
\* the URLs of the model.)
UrlScheme(url) ==
  IF StartsWith(url, Https) THEN Https
  ELSE IF StartsWith(url, Http) THEN Http
  ELSE <<>>

UrlRest(url) == Substring(url, Len(UrlScheme(url)))

UrlAuthority(url) ==
  Then(UrlRest(url), LAMBDA rest :
    Then(FirstOf(rest, {"/", "?", "#"}, 1), LAMBDA e :
      IF e = 0 THEN rest ELSE SubSeq(rest, 1, e - 1)))

\* the host, which the URL parser converts to lower case
UrlHost(url) ==
  Then(UrlAuthority(url), LAMBDA auth :
    Then(FirstOf(auth, {":"}, 1), LAMBDA c :
      MapSeq(IF c = 0 THEN auth ELSE SubSeq(auth, 1, c - 1), ToLower)))

UrlPort(url) ==
  Then(UrlAuthority(url), LAMBDA auth :
    Then(FirstOf(auth, {":"}, 1), LAMBDA c :
      IF c = 0 THEN <<>> ELSE Substring(auth, c)))

UrlValid(url) ==
  /\ UrlScheme(url) # <<>>
  /\ UrlHost(url) # <<>>
  /\ Then(UrlPort(url), LAMBDA port : \A i \in 1..Len(port) : port[i] \in Digits)

UrlPathname(url) ==
  Then(Substring(UrlRest(url), Len(UrlAuthority(url))), LAMBDA rest :
    Then(FirstOf(rest, {"?", "#"}, 1), LAMBDA e :
      Then(IF e = 0 THEN rest ELSE SubSeq(rest, 1, e - 1), LAMBDA p :
        IF p = <<>> THEN <<"/">> ELSE p)))

extractLocalPathFromUrl(url) ==
  Then(url, LAMBDA u : IF UrlValid(u) THEN UrlPathname(u) ELSE null)

\* /[^a-zA-Z]/ of webCrawler.ts
SimpleKeeps(c) == InRange(c, "a", "z") \/ InRange(c, "A", "Z")

\* /[^a-<o umlaut>A-<O umlaut>0-9]/u of part_000: the ranges run by code point,
\* a (U+0061) to o-umlaut (U+00F6) and A (U+0041) to O-umlaut (U+00D6)
MekanismiKeeps(c) ==
  \/ Code("a") <= Code(c) /\ Code(c) <= CodeOUmlautLower
  \/ Code("A") <= Code(c) /\ Code(c) <= CodeOUmlautUpper
  \/ InRange(c, "0", "9")

SimpleChar(c) == IF SimpleKeeps(c) THEN c ELSE Dash

MekanismiChar(c) == IF MekanismiKeeps(c) THEN c ELSE Dash

toMekanismiURI(s) ==
  IF s = null THEN <<>>
  ELSE Then(MapSeq(s, MekanismiChar), LAMBDA replaced :
         Then(WhileDoubleDash(replaced), LAMBDA r :
           IF EndsWith(r, <<Dash>>) THEN SubSeq(r, 1, Len(r) - 1) ELSE r))

\* strip one leading and one trailing dash (both variants end with this)
StripOneEach(s) ==
  Then(IF StartsWith(s, <<Dash>>) THEN Substring(s, 1) ELSE s, LAMBDA a :
    IF EndsWith(a, <<Dash>>) THEN SubSeq(a, 1, Len(a) - 1) ELSE a)

pathSegmentToFilenameSimple(pathSegment) ==
  Then(StripLeadingDashes(pathSegment), LAMBDA noLeading :
    Then(StripTrailingDashes(noLeading), LAMBDA stripped :
      Then(CollapseDashes(stripped), LAMBDA cleanedPath :
        Then(MapSeq(cleanedPath, SimpleChar), LAMBDA sanitizedPath :
          IF Len(sanitizedPath) = 0 THEN Index ELSE StripOneEach(sanitizedPath)))))

pathSegmentToFilenameRicher(pathSegment) ==
  Then(toMekanismiURI(pathSegment), LAMBDA sanitizedPath :
    IF Len(sanitizedPath) = 0 \/ sanitizedPath = <<Dash>> THEN Index
    ELSE StripOneEach(sanitizedPath))

pathSegmentToFilename(v, pathSegment) ==
  IF v = "simple" THEN pathSegmentToFilenameSimple(pathSegment)
  ELSE pathSegmentToFilenameRicher(pathSegment)

\* crawl(): pathSegmentToFilename(pagePath || ''), before the extension
PageName(v, url) ==
  Then(extractLocalPathFromUrl(url), LAMBDA pagePath :
    Then(IF pagePath = null THEN <<>> ELSE pagePath, LAMBDA pathSegment :
      pathSegmentToFilename(v, pathSegment)))

PageFileName(v, url) == PageName(v, url) \o PageExt(v)

-----------------------------------------------------------------------------
(* The site served to the crawler *)

Root == Https \o domain
PageP == Root \o <<"/", "p">>
PageQ == Root \o <<"/", "q">>
\* its file name, p-edit.md, contains the ignore pattern -edit
PageEdit == Root \o <<"/", "p", "-", "e", "d", "i", "t">>
\* the host www.a.b
PageWww == Https \o Www \o domain \o <<"/", "w">>
\* the host a.bc, which starts with the domain string
PagePrefixHost == Https \o domain \o <<"c", "/", "e">>
\* the host axb, which differs from the domain where the domain has its dot
PageDotHost == Https \o <<"a", "x", "b", "/", "x">>
\* the host c.d, with the domain string in the path
PageOffWithDomain == Https \o <<"c", ".", "d", "/">> \o domain
\* the host A.b: the configured domain, written with a capital
PageUpper == Https \o <<"A", ".", "b", "/", "u">>
\* the host c.d
PageOff == Https \o <<"c", ".", "d", "/", "o">>
\* an href without a scheme: the domain and a path, as in <a href="a.b/r">
PageNoScheme == domain \o <<"/", "r">>
\* matches the domain pattern but does not parse as a URL: the port is not a number
PageBadPort == Root \o <<":", "x">>
ImageI == Root \o <<"/", "i", ".", "p", "n", "g">>
\* an image whose base name is the file name of the root page of the richer variant
ImageJ == Root \o <<"/", "i", "n", "d", "e", "x", ".", "m", "d">>

Doc(imgs, anchors) == [imgs |-> imgs, anchors |-> anchors]

EmptyDoc == Doc(<<>>, <<>>)

\* pages linking to each other in a cycle, one of them twice, and an ignored page
\* that the richer variant meets at its ceiling
SiteLinks ==
  (Root :> Doc(<<>>, <<PageP, PageP, PageQ>>))
  @@ (PageP :> Doc(<<>>, <<PageQ, Root, PageEdit>>))
  @@ (PageQ :> Doc(<<>>, <<PageP>>))

\* a chain of pages, each linking back: to the root, to its predecessor, to itself
SiteCycle ==
  (Root :> Doc(<<>>, <<PageP, PageP>>))
  @@ (PageP :> Doc(<<>>, <<PageQ, Root>>))
  @@ (PageQ :> Doc(<<>>, <<PageP, PageQ>>))

\* an image twice on one page and once more on a second page; an img without src
SiteImages ==
  (Root :> Doc(<<ImageI, ImageI>>, <<PageWww>>))
  @@ (PageWww :> Doc(<<<<>>, ImageI>>, <<>>))

\* anchors to other hosts, and an ignored page linked twice
SiteHosts ==
  (Root :> Doc(<<>>, <<PageEdit, PageEdit, PagePrefixHost, PageOffWithDomain, PageOff,
                       PageUpper>>))

\* a page whose image is stored under the file name of another page, and an
\* anchor to a host that differs from the domain at its dot
SiteOverwrite ==
  (Root :> Doc(<<>>, <<PageP, PageDotHost>>))
  @@ (PageP :> Doc(<<ImageJ>>, <<Root>>))

\* an anchor that the domain pattern matches and the URL parser rejects, and an
\* anchor to a page of the domain written without a scheme
SiteBadUrl ==
  (Root :> Doc(<<>>, <<PageBadPort, PageNoScheme>>))
  @@ (Https \o PageNoScheme :> Doc(<<>>, <<Root>>))

Sites == {SiteLinks, SiteImages, SiteHosts, SiteOverwrite, SiteBadUrl}

\* the sites of the termination check
LiveSites == {SiteCycle, SiteImages, SiteHosts, SiteBadUrl}

\* the document the server returns for url
DocOf(url) == IF url \in DOMAIN docs THEN docs[url] ELSE EmptyDoc

-----------------------------------------------------------------------------
(* Helpers of the crawl *)

Variants == {"simple", "richer"}

\* nOut before the normalizer harness has run (and throughout a crawl)
Pending == <<"pending">>

EmptyBag == <<>>

BagAdd(b, e) == IF e \in DOMAIN b THEN [b EXCEPT ![e] = @ + 1] ELSE b @@ (e :> 1)

BagCount(b, e) == IF e \in DOMAIN b THEN b[e] ELSE 0

Req(kind, url) == [kind |-> kind, url |-> url]

\* one atom of the pattern built from the domain string: "." matches any character
RegexAtomMatches(atom, c) == atom = "." \/ atom = c

MatchesAt(s, pos, pat) ==
  /\ Len(s) >= pos + Len(pat) - 1
  /\ \A j \in 1..Len(pat) : RegexAtomMatches(pat[j], s[pos + j - 1])

LiteralAt(s, pos, lit) ==
  /\ Len(s) >= pos + Len(lit) - 1
  /\ SubSeq(s, pos, pos + Len(lit) - 1) = lit

\* link.match(new RegExp(`^https?://(www\\.)?${domain}`))
domainRegex(link) ==
  \E scheme \in {Http, Https} :
    /\ StartsWith(link, scheme)
    /\ \/ MatchesAt(link, Len(scheme) + 1, domain)
       \/ /\ LiteralAt(link, Len(scheme) + 1, Www)
          /\ MatchesAt(link, Len(scheme) + Len(Www) + 1, domain)

\* link.startsWith('http') ? link : `https://${link}`
absoluteUrl(link) ==
  IF StartsWith(link, <<"h", "t", "t", "p">>) THEN link ELSE Https \o link

\* path.basename: the part after the last "/", trailing "/" dropped
StripTrailingSlashes(s) ==
  Then(s, LAMBDA x :
    Then({i \in 1..Len(x) : x[i] # "/"}, LAMBDA others :
      IF others = {} THEN SubSeq(x, 1, 1) ELSE SubSeq(x, 1, Max(others))))

LastSlash(s) ==
  Then(s, LAMBDA x :
    Then({i \in 1..Len(x) : x[i] = "/"}, LAMBDA hits :
      IF hits = {} THEN 0 ELSE Max(hits)))

basename(p) ==
  Then(StripTrailingSlashes(p), LAMBDA s :
    IF s = <<"/">> THEN <<>> ELSE Substring(s, LastSlash(s)))

NewTask(url, pageFileName) ==
  [url |-> url, fn |-> pageFileName, page |-> "fetch", disc |-> "wait",
   dom |-> EmptyDoc, k |-> 0, out |-> EmptyDoc]

NewDownload(imgSrc, t, index) ==
  [src |-> imgSrc, task |-> t, k |-> index, state |-> "req"]

\* the mutable state the code of one event-loop segment works on
World ==
  [visitedPages |-> visitedPages, imageDownloads |-> imageDownloads,
   tasks |-> tasks, dls |-> dls, files |-> files,
   callLog |-> callLog, requests |-> requests]

\* the segment has run: its result, computed once, becomes the state
Commit(w) ==
  \E x \in {w} :
    /\ visitedPages' = x.visitedPages
    /\ imageDownloads' = x.imageDownloads
    /\ tasks' = x.tasks
    /\ dls' = x.dls
    /\ files' = x.files
    /\ callLog' = x.callLog
    /\ requests' = x.requests

-----------------------------------------------------------------------------
(* Crawl Coordinator: crawl() up to its first suspension point *)

ignored(pageFileName) ==
  \E pattern \in ignorePatterns : Includes(pageFileName, pattern)

\* mutant of atCeiling: the comparison off by one
atCeilingOffByOne(w) == variant = "richer" /\ Cardinality(w.visitedPages) > maxPages

\* mutant of atCeiling: the ceiling is not checked
atCeilingNever(w) == FALSE

\* if (visitedPages.size >= maxPages) return;   (part_000 only)
atCeiling(w) == variant = "richer" /\ Cardinality(w.visitedPages) >= maxPages

\* mutant of crawl: the file name is checked but never added to visitedPages
crawlWithoutAdd(w, url) ==
  IF atCeiling(w) THEN w
  ELSE Then(PageFileName(variant, url), LAMBDA pageFileName :
    IF pageFileName \in w.visitedPages THEN w
    ELSE IF variant = "richer" /\ ignored(pageFileName) THEN w
    ELSE [w EXCEPT !.tasks = Append(@, NewTask(url, pageFileName)),
                   !.requests = BagAdd(@, Req("page", url))])

\* mutant of crawl: the ignore filter runs before the file name is added
crawlIgnoreBeforeAdd(w, url) ==
  IF atCeiling(w) THEN w
  ELSE Then(PageFileName(variant, url), LAMBDA pageFileName :
    IF pageFileName \in w.visitedPages THEN w
    ELSE IF variant = "richer" /\ ignored(pageFileName) THEN w
    ELSE [w EXCEPT !.visitedPages = @ \cup {pageFileName},
                   !.tasks = Append(@, NewTask(url, pageFileName)),
                   !.requests = BagAdd(@, Req("page", url))])

\* mutant of crawl: the file name is added but never looked up in visitedPages
crawlRevisits(w, url) ==
  IF atCeiling(w) THEN w
  ELSE Then(PageFileName(variant, url), LAMBDA pageFileName :
    LET w1 == [w EXCEPT !.visitedPages = @ \cup {pageFileName}]
    IN IF variant = "richer" /\ ignored(pageFileName) THEN w1
       ELSE [w1 EXCEPT !.tasks = Append(@, NewTask(url, pageFileName)),
                       !.requests = BagAdd(@, Req("page", url))])

\* crawl(url, baseFolder) from its entry to the await of axios.get inside
\* downloadAndSavePage: the ceiling, the dedup check-and-add, the ignore filter,
\* and the page request
crawl(w, url) ==
  IF atCeiling(w) THEN w
  ELSE Then(PageFileName(variant, url), LAMBDA pageFileName :
    IF pageFileName \in w.visitedPages THEN w
    ELSE
      LET w1 == [w EXCEPT !.visitedPages = @ \cup {pageFileName}]
      IN IF variant = "richer" /\ ignored(pageFileName) THEN w1
         ELSE [w1 EXCEPT !.tasks = Append(@, NewTask(url, pageFileName)),
                         !.requests = BagAdd(@, Req("page", url))])

\* observer: one crawl() invocation, with what it saw and did
Invoke(w, url) ==
  LET entry(w2, pageFileName) ==
        [url |-> url, fn |-> pageFileName,
         size |-> Cardinality(w.visitedPages),
         seen |-> pageFileName \in w.visitedPages,
         added |-> pageFileName \in w2.visitedPages \ w.visitedPages,
         spawned |-> Len(w2.tasks) - Len(w.tasks)]
  IN Then(crawl(w, url), LAMBDA w2 :
       Then(PageFileName(variant, url), LAMBDA fn :
         [w2 EXCEPT !.callLog = BagAdd(@, entry(w2, fn))]))

\* $('a').each(async (index, element) => { ... await crawl(absoluteUrl, folderName) }):
\* each callback runs to the first suspension of its crawl() before the next starts
RECURSIVE DiscoverEach(_, _, _)
DiscoverEach(w, anchors, index) ==
  IF index > Len(anchors) THEN w
  ELSE
    LET link == anchors[index]
        w2 == IF link # <<>> /\ domainRegex(link)
              THEN Invoke(w, absoluteUrl(link))
              ELSE w
    IN Then(w2, LAMBDA x : DiscoverEach(x, anchors, index + 1))

-----------------------------------------------------------------------------
(* Content Rewriter: the stream 'end' handler of downloadAndSavePage *)

\* imgTag.replace(imgSrc, imgFilename), imgFilename = path.basename(imgSrc)
RewriteImage(w, t, index) ==
  [w EXCEPT !.tasks[t].dom.imgs[index] = basename(@)]

\* part_000, the loop over $('a'): an href that includes the domain string and
\* parses is replaced by the file name of its path
RewriteAnchor(link) ==
  IF link # <<>> /\ Includes(link, domain)
  THEN LET linkPath == extractLocalPathFromUrl(link)
       IN IF linkPath # null /\ linkPath # <<>>
          THEN pathSegmentToFilename("richer", linkPath) \o LinkExt
          ELSE link
  ELSE link

\* what fs.writeFile or a write stream puts under a file name
PageContent(url, fmt, dom) ==
  [by |-> "page", of |-> url, fmt |-> fmt, imgs |-> dom.imgs, anchors |-> dom.anchors]

ImageContent(imgSrc) ==
  [by |-> "image", of |-> imgSrc, fmt |-> "bytes", imgs |-> <<>>, anchors |-> <<>>]

\* a completed write: the content now under the name, and how often it was written
Store(fs, name, content) ==
  IF name \in DOMAIN fs
  THEN [fs EXCEPT ![name] = [c |-> content, n |-> @.n + 1]]
  ELSE fs @@ (name :> [c |-> content, n |-> 1])

\* part_000: the anchors are rewritten, the document converted (elementToMDX) and
\* fs.writeFile started
FinishPage(w, t) ==
  LET task == w.tasks[t]
      dom2 == [task.dom EXCEPT !.anchors = MapSeq(@, RewriteAnchor)]
  IN [w EXCEPT !.tasks[t].dom = dom2,
               !.tasks[t].out = PageContent(task.url, "md", dom2),
               !.tasks[t].page = "write"]

\* part_000: for (let index = 0; index < images.length; index++), from index on,
\* up to the first await of downloadImage or to the write of the page
RECURSIVE ImagesLoop(_, _, _)
ImagesLoop(w, t, index) ==
  LET images == w.tasks[t].dom.imgs
  IN IF index > Len(images) THEN FinishPage(w, t)
     ELSE
       LET imgSrc == images[index]
       IN IF imgSrc = <<>> THEN ImagesLoop(w, t, index + 1)
          ELSE IF imgSrc \notin w.imageDownloads
          THEN [w EXCEPT !.dls = Append(@, NewDownload(imgSrc, t, index)),
                         !.requests = BagAdd(@, Req("image", imgSrc)),
                         !.tasks[t].page = "img",
                         !.tasks[t].k = index]
          ELSE Then(RewriteImage(w, t, index), LAMBDA x : ImagesLoop(x, t, index + 1))

\* webCrawler.ts: $('img').each(async (index, element) => ...): every callback runs
\* to its await of downloadImage, or to its end when the image is already known
RECURSIVE ImagesEach(_, _, _)
ImagesEach(w, t, index) ==
  LET images == w.tasks[t].dom.imgs
  IN IF index > Len(images) THEN w
     ELSE
       LET imgSrc == images[index]
           w2 == IF imgSrc = <<>> THEN w
                 ELSE IF imgSrc \notin w.imageDownloads
                 THEN [w EXCEPT !.dls = Append(@, NewDownload(imgSrc, t, index)),
                                !.requests = BagAdd(@, Req("image", imgSrc))]
                 ELSE RewriteImage(w, t, index)
       IN Then(w2, LAMBDA x : ImagesEach(x, t, index + 1))

\* webCrawler.ts, after the first write: the img callbacks are started, then
\* fs.writeFile(filename, $.html()) is started with the document as it is now
AfterFirstWrite(w, t) ==
  Then(ImagesEach(w, t, 1),
       LAMBDA x : [x EXCEPT !.tasks[t].out = PageContent(x.tasks[t].url, "html", x.tasks[t].dom),
                            !.tasks[t].page = "write2"])

\* the code after `await downloadImage(...)`: imageDownloads.add(imgSrc), the img
\* repointed, and in part_000 the loop resumed
AfterDownload(w, d) ==
  LET dl == w.dls[d]
      w2 == RewriteImage([w EXCEPT !.imageDownloads = @ \cup {dl.src}], dl.task, dl.k)
  IN IF variant = "richer"
     THEN Then(w2, LAMBDA x : ImagesLoop(x, dl.task, dl.k + 1))
     ELSE w2

-----------------------------------------------------------------------------
(* The actions: one per event the program waits for *)

Running == ~crashed /\ nOut = Pending

Keep == UNCHANGED <<variant, docs, crashed, nIn, nOut>>

\* crawl(`https://${domain}`, path.join('results', domain)) at the end of the script
Main ==
  /\ Running
  /\ callLog = EmptyBag
  /\ Commit(Invoke(World, Https \o domain))
  /\ Keep

\* downloadAndSavePage: axios.get(url, {responseType: 'stream'}) resolved; the
\* 'data' and 'end' handlers are attached and the function returns; crawl() goes
\* on to axios.get(url)
PageResponse(t) ==
  /\ Running
  /\ tasks[t].page = "fetch"
  /\ Commit([World EXCEPT !.tasks[t].page = "stream",
                          !.tasks[t].dom = DocOf(tasks[t].url),
                          !.tasks[t].disc = "req",
                          !.requests = BagAdd(@, Req("discover", tasks[t].url))])
  /\ Keep

\* downloadAndSavePage: axios.get rejected; the catch logs and the function
\* returns; crawl() goes on to axios.get(url)
PageFail(t) ==
  /\ Running
  /\ tasks[t].page = "fetch"
  /\ Commit([World EXCEPT !.tasks[t].page = "failed",
                          !.tasks[t].disc = "req",
                          !.requests = BagAdd(@, Req("discover", tasks[t].url))])
  /\ Keep

\* the 'end' event of the page's stream
StreamEnd(t) ==
  /\ Running
  /\ tasks[t].page = "stream"
  /\ IF variant = "richer"
     THEN Commit(ImagesLoop(World, t, 1))
     ELSE Commit([World EXCEPT
                    !.tasks[t].out = PageContent(tasks[t].url, "md", tasks[t].dom),
                    !.tasks[t].page = "write1"])
  /\ Keep

\* the 'error' event of the page's stream, for which downloadAndSavePage attaches
\* no listener: Node throws it as an uncaught exception, unless the HTTP client
\* holds a listener of its own, and then the 'end' handler never runs
StreamError(t) ==
  /\ Running
  /\ tasks[t].page = "stream"
  /\ \E uncaught \in BOOLEAN :
       /\ crashed' = uncaught
       /\ Commit([World EXCEPT !.tasks[t].page = "stalled"])
  /\ UNCHANGED <<variant, docs, nIn, nOut>>

\* webCrawler.ts: the first fs.writeFile(filename, markdownContent) completed
FirstWriteDone(t) ==
  /\ Running
  /\ tasks[t].page = "write1"
  /\ Commit(AfterFirstWrite(
       [World EXCEPT !.files = Store(@, tasks[t].fn, tasks[t].out)], t))
  /\ Keep

\* the last fs.writeFile of the 'end' handler completed
WriteDone(t) ==
  /\ Running
  /\ tasks[t].page \in {"write", "write2"}
  /\ Commit([World EXCEPT !.files = Store(@, tasks[t].fn, tasks[t].out),
                          !.tasks[t].page = "done"])
  /\ Keep

\* crawl(): axios.get(url) resolved; the anchors of the page are enumerated
DiscoverResponse(t) ==
  /\ Running
  /\ tasks[t].disc = "req"
  /\ Commit(DiscoverEach([World EXCEPT !.tasks[t].disc = "done"],
                         DocOf(tasks[t].url).anchors, 1))
  /\ Keep

\* crawl(): axios.get(url) rejected; the catch logs
DiscoverFail(t) ==
  /\ Running
  /\ tasks[t].disc = "req"
  /\ Commit([World EXCEPT !.tasks[t].disc = "failed"])
  /\ Keep

\* downloadImage: axios.get resolved; the response is piped into the write stream
ImageResponse(d) ==
  /\ Running
  /\ dls[d].state = "req"
  /\ Commit([World EXCEPT !.dls[d].state = "pipe"])
  /\ Keep

\* downloadImage: axios.get rejected; the catch logs and the caller goes on
ImageRequestFail(d) ==
  /\ Running
  /\ dls[d].state = "req"
  /\ Commit(AfterDownload([World EXCEPT !.dls[d].state = "failed"], d))
  /\ Keep

\* downloadImage: the write stream emitted 'finish'
ImageFinish(d) ==
  /\ Running
  /\ dls[d].state = "pipe"
  /\ Commit(AfterDownload(
       [World EXCEPT !.dls[d].state = "done",
                     !.files = Store(@, basename(dls[d].src), ImageContent(dls[d].src))],
       d))
  /\ Keep

\* downloadImage: the write stream emitted 'error'; the promise rejects, the catch
\* logs and the caller goes on
ImageWriteError(d) ==
  /\ Running
  /\ dls[d].state = "pipe"
  /\ Commit(AfterDownload([World EXCEPT !.dls[d].state = "failed"], d))
  /\ Keep

\* downloadImage: the response stream emitted 'error' while piped; pipe() does not
\* forward it and no listener is attached: an uncaught exception, or (the HTTP
\* client holding a listener) a promise that never settles
ImageStreamError(d) ==
  /\ Running
  /\ dls[d].state = "pipe"
  /\ \E uncaught \in BOOLEAN :
       /\ crashed' = uncaught
       /\ Commit([World EXCEPT !.dls[d].state = "stalled"])
  /\ UNCHANGED <<variant, docs, nIn, nOut>>

Init ==
  /\ variant \in Variants
  /\ docs \in Sites
  /\ visitedPages = {}
  /\ imageDownloads = {}
  /\ tasks = <<>>
  /\ dls = <<>>
  /\ files = <<>>
  /\ crashed = FALSE
  /\ callLog = EmptyBag
  /\ requests = EmptyBag
  /\ nIn = <<>>
  /\ nOut = Pending

Next ==
  \/ Main
  \/ \E t \in DOMAIN tasks : PageResponse(t)
  \/ \E t \in DOMAIN tasks : PageFail(t)
  \/ \E t \in DOMAIN tasks : StreamEnd(t)
  \/ \E t \in DOMAIN tasks : StreamError(t)
  \/ \E t \in DOMAIN tasks : FirstWriteDone(t)
  \/ \E t \in DOMAIN tasks : WriteDone(t)
  \/ \E t \in DOMAIN tasks : DiscoverResponse(t)
  \/ \E t \in DOMAIN tasks : DiscoverFail(t)
  \/ \E d \in DOMAIN dls : ImageResponse(d)
  \/ \E d \in DOMAIN dls : ImageRequestFail(d)
  \/ \E d \in DOMAIN dls : ImageFinish(d)
  \/ \E d \in DOMAIN dls : ImageWriteError(d)
  \/ \E d \in DOMAIN dls : ImageStreamError(d)

Spec == Init /\ [][Next]_vars

\* the crawl under the event loop's scheduling, every request eventually completing
\* or failing and every write eventually completing: while an event is
\* outstanding, one is eventually delivered
LiveInit ==
  /\ variant \in Variants
  /\ docs \in LiveSites
  /\ visitedPages = {}
  /\ imageDownloads = {}
  /\ tasks = <<>>
  /\ dls = <<>>
  /\ files = <<>>
  /\ crashed = FALSE
  /\ callLog = EmptyBag
  /\ requests = EmptyBag
  /\ nIn = <<>>
  /\ nOut = Pending

SpecLive == LiveInit /\ [][Next]_vars /\ WF_vars(Next)

-----------------------------------------------------------------------------
(* Normalizer harness: the URL Normalizer as a pure function of its input *)

NormAlphabet == {"/", "-", "a", "1", "_"}

NormSuffixes == UNION {[1..n -> NormAlphabet] : n \in 0..MaxLen}

\* parsable URLs on the configured domain, and the bare suffixes, which do not parse
NormInputs == {Https \o domain \o p : p \in NormSuffixes} \cup NormSuffixes

NormInit ==
  /\ variant \in Variants
  /\ nIn \in NormInputs
  /\ nOut = Pending
  /\ docs = <<>>
  /\ visitedPages = {}
  /\ imageDownloads = {}
  /\ tasks = <<>>
  /\ dls = <<>>
  /\ files = <<>>
  /\ crashed = FALSE
  /\ callLog = EmptyBag
  /\ requests = EmptyBag

Normalize ==
  /\ nOut = Pending
  /\ nOut' = PageName(variant, nIn)
  /\ UNCHANGED <<variant, nIn, crawlVars>>

NormNext == Normalize

SpecNorm == NormInit /\ [][NormNext]_vars

-----------------------------------------------------------------------------
(* Properties *)

\* the host is the configured domain, or www. before it
OnDomain(url) == UrlValid(url) /\ UrlHost(url) \in {domain, Www \o domain}

TasksOf(pageFileName) == {t \in DOMAIN tasks : tasks[t].fn = pageFileName}

DownloadsOf(imgSrc) == {d \in DOMAIN dls : dls[d].src = imgSrc}

AtCeilingNow == variant = "richer" /\ Cardinality(visitedPages) >= maxPages

\* C1: for every page file name, at most one crawl() invocation passes the
\* visitedPages check, and downloadAndSavePage is started at most once, however
\* many pages link to the page and however their processing overlaps.
C1_OnePassPerFilename ==
  /\ \A e \in DOMAIN callLog :
       e.added =>
         /\ callLog[e] = 1
         /\ \A e2 \in DOMAIN callLog : (e2.fn = e.fn /\ e2.added) => e2 = e
  /\ \A e \in DOMAIN callLog : e.spawned > 0 => e.added
  /\ \A t \in DOMAIN tasks : TasksOf(tasks[t].fn) = {t}

\* C1 witness: a page was linked again while its one download was still in flight
C1_Witness ==
  \E e1, e2 \in DOMAIN callLog :
    /\ e1.fn = e2.fn /\ e1.added /\ e2.seen
    /\ \E t \in DOMAIN tasks : tasks[t].fn = e1.fn /\ tasks[t].page = "fetch"

\* C2: for every image source URL exactly one downloadImage call is started per
\* crawl run: never a second one, and one once a page holding it has been written.
C2_OneDownloadPerImage ==
  /\ \A d \in DOMAIN dls : DownloadsOf(dls[d].src) = {d}
  /\ \A t \in DOMAIN tasks :
       tasks[t].page = "done" =>
         \A k \in DOMAIN DocOf(tasks[t].url).imgs :
           DocOf(tasks[t].url).imgs[k] # <<>> =>
             DownloadsOf(DocOf(tasks[t].url).imgs[k]) # {}

\* C3: crawl() is only ever invoked for URLs whose host is the configured domain
\* or www. + domain.
C3_CrawlOnlyOnDomain ==
  \A e \in DOMAIN callLog : OnDomain(e.url)

\* C4: in the content finally persisted for a page, no anchor href and no image
\* src is still an absolute URL on the configured domain.
C4_NoDomainUrlPersisted ==
  \A t \in DOMAIN tasks :
    tasks[t].page = "done" =>
      /\ \A k \in DOMAIN tasks[t].out.anchors : ~OnDomain(tasks[t].out.anchors[k])
      /\ \A k \in DOMAIN tasks[t].out.imgs : ~OnDomain(tasks[t].out.imgs[k])

\* the keep set of the variant's replacement pattern
Keeps(v, c) == IF v = "simple" THEN SimpleKeeps(c) ELSE MekanismiKeeps(c)

\* the input is a root path, does not parse, or has a path of separators only
IndexCase(v, url) ==
  \/ ~UrlValid(url)
  \/ UrlPathname(url) = <<"/">>
  \/ \A i \in DOMAIN UrlPathname(url) : ~Keeps(v, UrlPathname(url)[i])

\* C5: the normalizer never returns an empty name, and returns index for a root
\* path, an unparsable URL and a path that reduces to separators only, in both
\* variants.
C5_NormalizerNeverEmpty ==
  nOut # Pending =>
    /\ nOut # <<>>
    /\ IndexCase(variant, nIn) => nOut = Index

\* C6: in the richer variant visitedPages never holds more than maxPages names,
\* and a crawl() invoked while it holds maxPages adds nothing and starts nothing.
C6_CeilingHolds ==
  variant = "richer" =>
    /\ Cardinality(visitedPages) <= maxPages
    /\ \A e \in DOMAIN callLog :
         e.size >= maxPages => ~e.added /\ e.spawned = 0

\* C6 witness: crawl() was invoked at the ceiling on a file name not yet visited
C6_Witness ==
  /\ variant = "richer"
  /\ \E e \in DOMAIN callLog : e.size >= maxPages /\ ~e.seen

PageFilesKept ==
  \A n \in DOMAIN files :
    files[n].c.by = "page" => n \in DOMAIN files' /\ files'[n] = files[n]

PageRequests(b) == {r \in DOMAIN b : r.kind = "page"}

NeverProcessed(e) ==
  /\ e.spawned = 0
  /\ TasksOf(e.fn) = {}
  /\ BagCount(requests, Req("page", e.url)) = 0
  /\ BagCount(requests, Req("discover", e.url)) = 0
  /\ e.fn \in DOMAIN files => files[e.fn].c.by # "page"

\* C8 as claimed: a crawl() of a not yet visited file name that contains an ignore
\* pattern adds the name to visitedPages, and the URL is never fetched, written or
\* recursed from.
C8_IgnoredIsMarked ==
  variant = "richer" =>
    \A e \in DOMAIN callLog :
      (~e.seen /\ ignored(e.fn)) =>
        e.added /\ e.fn \in visitedPages /\ NeverProcessed(e)

\* C8 as amended: the same, for an invocation below the page ceiling (at the
\* ceiling crawl() returns before it looks at the file name, which stays unvisited).
C8_IgnoredIsMarkedBelowCeiling ==
  variant = "richer" =>
    \A e \in DOMAIN callLog :
      (~e.seen /\ ignored(e.fn) /\ e.size < maxPages) =>
        e.added /\ e.fn \in visitedPages /\ NeverProcessed(e)

\* C8 witness: an ignored file name was marked and then linked again
C8_Witness ==
  /\ variant = "richer"
  /\ \E e1, e2 \in DOMAIN callLog :
       /\ ignored(e1.fn) /\ e1.added /\ e1.size < maxPages
       /\ e2.fn = e1.fn /\ e2.seen

\* C9: no network failure of a page or image fetch, at any stage, aborts the run.
C9_FailuresNeverAbort == ~crashed

\* C10: the rewriter leaves the href of every anchor whose host is not the
\* configured domain (nor www. + domain) as it was.
C10_OffDomainHrefKept ==
  variant = "richer" =>
    \A t \in DOMAIN tasks :
      tasks[t].page \in {"write", "done"} =>
        \A k \in DOMAIN tasks[t].out.anchors :
          ~OnDomain(DocOf(tasks[t].url).anchors[k]) =>
            tasks[t].out.anchors[k] = DocOf(tasks[t].url).anchors[k]

\* C11: every anchor whose href the rewriter replaced by a local file name is an
\* anchor on which the Discover step of the same page invoked crawl(), and the
\* file name is the one crawl() computed for that href.
C11_RewrittenIsCrawled ==
  variant = "richer" =>
    \A t \in DOMAIN tasks :
      (tasks[t].page \in {"write", "done"} /\ tasks[t].disc = "done") =>
        \A k \in DOMAIN tasks[t].out.anchors :
          tasks[t].out.anchors[k] # DocOf(tasks[t].url).anchors[k] =>
            \E e \in DOMAIN callLog :
              /\ e.url = DocOf(tasks[t].url).anchors[k]
              /\ e.fn = tasks[t].out.anchors[k]

\* C12: the anchors of a page are enumerated by crawl() only after the 'end'
\* handler of its downloadAndSavePage has finished (the page file is written, or
\* the page fetch failed).
C12_WrittenBeforeDiscover ==
  \A t \in DOMAIN tasks :
    tasks[t].disc = "done" => tasks[t].page \in {"done", "failed"}

RequestsFor(url) ==
  BagCount(requests, Req("page", url)) + BagCount(requests, Req("discover", url))

\* C13: a URL whose page fetch failed is requested no second time, and its
\* outgoing links are not enumerated.
C13_FailedFetchIsDone ==
  \A t \in DOMAIN tasks :
    tasks[t].page = "failed" =>
      /\ RequestsFor(tasks[t].url) <= 1
      /\ tasks[t].disc \notin {"req", "done"}

\* C14: every URL in imageDownloads is an image whose download succeeded: some
\* downloadImage of it had its write stream finished when the URL was added.
C14_DownloadSetIsDownloaded ==
  \A imgSrc \in imageDownloads :
    \E d \in DownloadsOf(imgSrc) : dls[d].state = "done"

\* the page writes (fs.writeFile started, not completed) and the image writes
\* (write stream created, not finished) in progress to a file name of the folder
PageWriters(name) ==
  {t \in DOMAIN tasks :
     tasks[t].fn = name /\ tasks[t].page \in {"write", "write1", "write2"}}

ImageWriters(name) ==
  {d \in DOMAIN dls : basename(dls[d].src) = name /\ dls[d].state = "pipe"}

WriteTargets ==
  {tasks[t].fn : t \in DOMAIN tasks} \cup {basename(dls[d].src) : d \in DOMAIN dls}

\* C15: at no time are two writes in progress to the same destination file,
\* page files and image files counted together.
C15_OneWriterPerPath ==
  \A name \in WriteTargets :
    Cardinality(PageWriters(name)) + Cardinality(ImageWriters(name)) <= 1

\* C16: a page file, once written, is never written again and never changes, in
\* both variants.
C16_PageFileWrittenOnce == [][PageFilesKept]_vars

\* C17: the name the normalizer returns holds no two consecutive dashes and
\* neither begins nor ends with a dash, in both variants.
C17_NoStraySeparators ==
  nOut # Pending =>
    /\ ~Includes(nOut, <<Dash, Dash>>)
    /\ ~StartsWith(nOut, <<Dash>>)
    /\ ~EndsWith(nOut, <<Dash>>)

\* no page is processed a second time: one downloadAndSavePage per file name
NoPageTwice == \A t \in DOMAIN tasks : TasksOf(tasks[t].fn) = {t}

\* no response, stream event or write completion is outstanding: no crawl(), no
\* download and no write is waiting for anything that can still arrive
Quiet ==
  /\ callLog # EmptyBag
  /\ \/ crashed
     \/ /\ \A t \in DOMAIN tasks :
              /\ tasks[t].page \notin {"fetch", "stream", "write", "write1", "write2"}
              /\ tasks[t].disc # "req"
        /\ \A d \in DOMAIN dls : dls[d].state \notin {"req", "pipe"}

\* C18: on a finite site whose links form cycles, a page linking to itself
\* included, the visitedPages check keeps every page from being processed again,
\* and when every request eventually completes or fails the crawl eventually
\* reaches a state with nothing pending and nothing further scheduled.
C18_CrawlTerminates == []NoPageTwice /\ <>Quiet

\* C18 witness: the crawl of the cyclic site has ended with every page written and
\* the links back to visited pages, the self-link among them, turned away
C18_Witness ==
  /\ docs = SiteCycle
  /\ Quiet /\ ~crashed
  /\ \A t \in DOMAIN tasks : tasks[t].page = "done" /\ tasks[t].disc = "done"
  /\ \A url \in {Root, PageP, PageQ} :
       /\ \E t \in DOMAIN tasks : tasks[t].url = url
       /\ \E e \in DOMAIN callLog : e.url = url /\ e.seen

\* the href, given the https:// prefix when it has no scheme, is a URL whose host
\* is the configured domain
DesignatesDomain(link) == link # <<>> /\ OnDomain(absoluteUrl(link))

\* C19: the Discover step of a fetched page invokes crawl() on every anchor href
\* that designates the configured domain, scheme-less hrefs included (with the
\* https:// prefix).
C19_DiscoverCrawlsDomainAnchors ==
  \A t \in DOMAIN tasks :
    tasks[t].disc = "done" =>
      \A k \in DOMAIN DocOf(tasks[t].url).anchors :
        DesignatesDomain(DocOf(tasks[t].url).anchors[k]) =>
          \E e \in DOMAIN callLog : e.url = absoluteUrl(DocOf(tasks[t].url).anchors[k])

\* C20: a crawl() invoked on a URL that does not parse adds no file name to
\* visitedPages and starts no fetch and no write for it.
C20_UnparsableLinkExcluded ==
  \A e \in DOMAIN callLog :
    ~UrlValid(e.url) =>
      /\ ~e.added
      /\ e.spawned = 0
      /\ RequestsFor(e.url) = 0


=============================================================================
